---------------------------- MODULE Spec2Model ----------------------------
(***************************************************************************)
(* SpatioX: the spatio-temporal point index (SpatioIndexCore) with its     *)
(* three components, the RecordStore, the k-d tree SpatialIndex and the    *)
(* multimap TemporalIndex.                                                 *)
(*                                                                         *)
(* Coordinates are whole degrees (exactly representable floats), so the    *)
(* float comparisons of the source are integer comparisons here.           *)
(* Timestamps are whole numbers; DBL_MAX stands for                        *)
(* std::numeric_limits<double>::max().  Distances are the values of        *)
(* haversine_distance on the coordinate grid, tabulated from the source.   *)
(***************************************************************************)
EXTENDS Integers, Sequences, FiniteSets, TLC

VARIABLES
    record_store_,     \* RecordStore: records_, id_to_index_, next_id_
    spatial_index_,    \* SpatialIndex: the KDNode arena, root_, size_
    temporal_index_,   \* TemporalIndex: time_index_, min_time_, max_time_
    build_completed_,  \* SpatioIndexCore::build_completed_
    ret,               \* the last public operation with its arguments and result
    spatial_calls,     \* the SpatialIndex methods the last operation invoked
    issued,            \* history: the inputs of the inserts since the last clear
    inflight           \* the call of insert or bulk_insert in progress, <<>> if none

vars == <<record_store_, spatial_index_, temporal_index_, build_completed_,
          ret, spatial_calls, issued, inflight>>

-----------------------------------------------------------------------------
(* Bounds of the model *)

MaxRecords == 3

MaxBulk == 2

-----------------------------------------------------------------------------
(* Input domains *)

\* The coordinate grid (degrees): the equator and two latitudes near the
\* pole; longitudes on both sides of the +/-180 meridian.
Lats == <<0, 80, 85>>

Lons == <<-179, 0, 90, 170, 179>>

\* The points records are inserted at.
Points == { <<0, 0>>, <<0, 170>>, <<0, -179>>, <<80, 90>>, <<85, 90>> }

\* The query centers.
Centers == { <<0, 0>>, <<0, 179>>, <<80, 0>> }

\* The query radii (km).
Radii == { 0, 500, 1300, 20100 }

\* The timestamps of inserted records.
Times == { 1, 2 }

\* (lat, lon, t) triples, the arguments of insert and the RecordInput of
\* bulk_insert: every point at one time; two points at every time; and a
\* mix with a repeated point and a repeated time.
SpatialInputs == { <<p[1], p[2], 1>> : p \in Points }

TimedInputs == { <<p[1], p[2], t>> : p \in { <<0, 170>>, <<80, 90>> }, t \in Times }

MixedInputs == { <<0, 0, 1>>, <<0, 0, 2>>, <<80, 90, 1>>, <<0, -179, 2>> }

\* The bounds of box queries.
BoxLats == { 0, 80, 85 }

BoxLons == { -179, 0, 170 }

DBL_MAX == 1000

DBL_LOWEST == -DBL_MAX

\* The time ranges (t_start, t_end) of the *_time queries: below, above, inside
\* and around the timestamps, and one reversed.
TimeRanges == { <<0, 0>>, <<3, 3>>, <<1, 1>>, <<2, 2>>, <<1, 2>>, <<0, 3>>, <<2, 1>> }

\* The centers, radii (km) and boxes of the *_time queries.
TimeCenters == { <<0, 179>> }

TimeRadii == { 1300, 20100 }

TimeBoxes == { <<0, 0, 85, 179>>, <<0, 170, 0, 170>> }

-----------------------------------------------------------------------------
(* size_t / uint64_t values whose width matters: four 16-bit limbs, most  *)
(* significant first.                                                      *)

LimbBase == 2^16

U64(n) == << 0, 0, n \div LimbBase, n % LimbBase >>

U64Max == << LimbBase - 1, LimbBase - 1, LimbBase - 1, LimbBase - 1 >>

\* a < b on unsigned 64-bit values
U64Less(a, b) ==
    \E i \in 1..4 : a[i] < b[i] /\ \A j \in 1..(i - 1) : a[j] = b[j]

U64Min(a, b) == IF U64Less(b, a) THEN b ELSE a

\* a * 3 in size_t arithmetic: the product modulo 2^64
U64Mul3(a) ==
    LET p4 == a[4] * 3
        p3 == a[3] * 3 + p4 \div LimbBase
        p2 == a[2] * 3 + p3 \div LimbBase
        p1 == a[1] * 3 + p2 \div LimbBase
    IN  << p1 % LimbBase, p2 % LimbBase, p3 % LimbBase, p4 % LimbBase >>

\* a value known to be at most a container size, as a number
U64ToNat(a) == a[3] * LimbBase + a[4]

\* 0x5555555555555556: the least k with 3k >= 2^64
KWrap == << 21845, 21845, 21845, 21846 >>

\* The k of k-NN queries.
KValues == { U64(0), U64(1), U64(2), U64(3), KWrap, U64Max }

-----------------------------------------------------------------------------
(* utils.hpp: haversine_distance *)

PointIndex(lat, lon) ==
    LET i == CHOOSE x \in 1..Len(Lats) : Lats[x] = lat
        j == CHOOSE y \in 1..Len(Lons) : Lons[y] = lon
    IN  (i - 1) * Len(Lons) + j

\* haversine_distance(lat1, lon1, lat2, lon2) evaluated in the source's float
\* arithmetic on Lats x Lons, in metres rounded up (the rounding is injective on
\* the tabulated values, so <, <= between two distances and against a whole
\* number of metres are those of the float values).  Row and column are
\* PointIndex of the first and the second point.
HaversineTable ==
  << <<0, 19903874, 10118737, 1223146, 222391, 8895594, 11119321, 10026851, 8916227, 8896278, 9451568, 10563433, 10017234, 9461809, 9451909>>,
     <<19903874, 0, 10007544, 18903142, 19903874, 11119321, 8895594, 10007544, 11102429, 11119321, 10563433, 9451568, 10007544, 10555051, 10563433>>,
     <<10118737, 10007544, 0, 8895594, 9896349, 10026851, 10007544, 8895594, 9815405, 9988235, 10017234, 10007544, 9451568, 9911118, 9997853>>,
     <<1223146, 18903142, 8895594, 0, 1000755, 8916227, 11102429, 9815405, 8895594, 8909422, 9461809, 10555051, 9911118, 9451568, 9458431>>,
     <<222391, 19903874, 9896349, 1000755, 0, 8896278, 11119321, 9988235, 8909422, 8895594, 9451909, 10563433, 9997853, 9458431, 9451568>>,
     <<8895594, 11119321, 10026851, 8916227, 8896278, 0, 2223813, 1582219, 212081, 38616, 555975, 1667868, 1250589, 575944, 556649>>,
     <<11119321, 8895594, 10007544, 11102429, 11119321, 2223813, 0, 1568521, 2215350, 2223813, 1667868, 555975, 1241931, 1662255, 1667868>>,
     <<10026851, 10007544, 8895594, 9815405, 9988235, 1582219, 1568521, 0, 1425218, 1554705, 1250589, 1241931, 555975, 1152296, 1233214>>,
     <<8916227, 11102429, 9815405, 8895594, 8909422, 212081, 2215350, 1425218, 0, 173606, 575944, 1662255, 1152296, 555975, 569433>>,
     <<8896278, 11119321, 9988235, 8909422, 8895594, 38616, 2223813, 1554705, 173606, 0, 556649, 1667868, 1233214, 569433, 555975>>,
     <<9451568, 10563433, 10017234, 9461809, 9451909, 555975, 1667868, 1250589, 575944, 556649, 0, 1111907, 792603, 106442, 19382>>,
     <<10563433, 9451568, 10007544, 10555051, 10563433, 1667868, 555975, 1241931, 1662255, 1667868, 1111907, 0, 785768, 1107708, 1111907>>,
     <<10017234, 10007544, 9451568, 9911118, 9997853, 1250589, 1241931, 555975, 1152296, 1233214, 792603, 785768, 0, 714215, 778872>>,
     <<9461809, 10555051, 9911118, 9451568, 9458431, 575944, 1662255, 1152296, 555975, 569433, 106442, 1107708, 714215, 0, 87133>>,
     <<9451909, 10563433, 9997853, 9458431, 9451568, 556649, 1667868, 1233214, 569433, 555975, 19382, 1111907, 778872, 87133, 0>> >>

haversine_distance(lat1, lon1, lat2, lon2) ==
    HaversineTable[PointIndex(lat1, lon1)][PointIndex(lat2, lon2)]

-----------------------------------------------------------------------------
(* record.hpp, record_store.cpp *)

Record(lat, lon, t, id) == [lat |-> lat, lon |-> lon, t |-> t, id |-> id]

\* add_record building the record without its id: Record's constructor then
\* gives it the default id 0.
add_record_default_id(rs, lat, lon, t) ==
    LET id    == rs.next_id_
        rec   == Record(lat, lon, t, 0)
        index == Len(rs.records_)
    IN  [store |-> [records_     |-> Append(rs.records_, rec),
                    id_to_index_ |-> [x \in DOMAIN rs.id_to_index_ \cup {id} |->
                                         IF x = id THEN index ELSE rs.id_to_index_[x]],
                    next_id_     |-> id + 1],
         id    |-> id]

\* RecordStore::add_record: the store after the call and the id it returns.
add_record(rs, lat, lon, t) ==
    LET id    == rs.next_id_
        rec   == Record(lat, lon, t, id)
        index == Len(rs.records_)
    IN  [store |-> [records_     |-> Append(rs.records_, rec),
                    id_to_index_ |-> [x \in DOMAIN rs.id_to_index_ \cup {id} |->
                                         IF x = id THEN index ELSE rs.id_to_index_[x]],
                    next_id_     |-> id + 1],
         id    |-> id]

\* std::optional<Record>: <<>> is std::nullopt, <<r>> holds r.
\* RecordStore::get_record
RecordStore_get_record(rs, id) ==
    IF id \notin DOMAIN rs.id_to_index_
    THEN <<>>
    ELSE << rs.records_[rs.id_to_index_[id] + 1] >>

\* RecordStore::get_record_ptr: the same lookup, returning a borrow into
\* records_ (<<>> is the null pointer).
RecordStore_get_record_ptr(rs, id) ==
    IF id \notin DOMAIN rs.id_to_index_
    THEN <<>>
    ELSE << rs.records_[rs.id_to_index_[id] + 1] >>

RecordStore_size(rs) == Len(rs.records_)

\* clear leaving the allocator where it is.
RecordStore_clear_keeps_next_id(rs) ==
    [records_ |-> <<>>, id_to_index_ |-> <<>>, next_id_ |-> rs.next_id_]

\* RecordStore::clear
RecordStore_clear(rs) == [records_ |-> <<>>, id_to_index_ |-> <<>>, next_id_ |-> 1]

-----------------------------------------------------------------------------
(* spatial_index.hpp / spatial_index.cpp: the k-d tree.  The nodes live in *)
(* an arena; a unique_ptr<KDNode> is an index into it, NULL the empty one. *)

NULL == 0

\* KDNode::KDNode
KDNode(lat, lon, id_, axis_) ==
    [point   |-> <<lat, lon>>,
     id      |-> id_,
     axis    |-> axis_,
     min_lat |-> lat, max_lat |-> lat,
     min_lon |-> lon, max_lon |-> lon,
     left    |-> NULL,
     right   |-> NULL]

Min(a, b) == IF b < a THEN b ELSE a

Max(a, b) == IF a < b THEN b ELSE a

\* One half of KDNode::update_bounds: widen n by the bounds of child c.
IncludeBounds(n, c) ==
    [n EXCEPT !.min_lat = Min(n.min_lat, c.min_lat),
              !.max_lat = Max(n.max_lat, c.max_lat),
              !.min_lon = Min(n.min_lon, c.min_lon),
              !.max_lon = Max(n.max_lon, c.max_lon)]

\* update_bounds that takes in the left child only.
update_bounds_left_only(nodes, node) ==
    LET n0 == nodes[node]
        n1 == IF n0.left # NULL THEN IncludeBounds(n0, nodes[n0.left]) ELSE n0
    IN  [nodes EXCEPT ![node] = n1]

\* KDNode::update_bounds on the node at index node of the arena
update_bounds(nodes, node) ==
    LET n0 == nodes[node]
        n1 == IF n0.left # NULL THEN IncludeBounds(n0, nodes[n0.left]) ELSE n0
        n2 == IF n1.right # NULL THEN IncludeBounds(n1, nodes[n1.right]) ELSE n1
    IN  [nodes EXCEPT ![node] = n2]

\* insert_recursive that sends a value equal to the split value to the left.
RECURSIVE insert_recursive_ties_left(_, _, _, _, _, _)
insert_recursive_ties_left(nodes, node, lat, lon, id, depth) ==
    IF node = NULL
    THEN [nodes |-> Append(nodes, KDNode(lat, lon, id, depth % 2)),
          ptr   |-> Len(nodes) + 1]
    ELSE LET axis       == nodes[node].axis
             value      == IF axis = 0 THEN lat ELSE lon
             node_value == nodes[node].point[axis + 1]
         IN  IF value <= node_value
             THEN LET r == insert_recursive_ties_left(nodes, nodes[node].left, lat, lon, id,
                                                      depth + 1)
                      linked == [r.nodes EXCEPT ![node].left = r.ptr]
                  IN  [nodes |-> update_bounds(linked, node), ptr |-> node]
             ELSE LET r == insert_recursive_ties_left(nodes, nodes[node].right, lat, lon, id,
                                                      depth + 1)
                      linked == [r.nodes EXCEPT ![node].right = r.ptr]
                  IN  [nodes |-> update_bounds(linked, node), ptr |-> node]

\* SpatialIndex::insert_recursive: the arena after the call and the value the
\* unique_ptr reference holds after it.
RECURSIVE insert_recursive(_, _, _, _, _, _)
insert_recursive(nodes, node, lat, lon, id, depth) ==
    IF node = NULL
    THEN [nodes |-> Append(nodes, KDNode(lat, lon, id, depth % 2)),
          ptr   |-> Len(nodes) + 1]
    ELSE LET axis       == nodes[node].axis
             value      == IF axis = 0 THEN lat ELSE lon
             node_value == nodes[node].point[axis + 1]
         IN  IF value < node_value
             THEN LET r == insert_recursive(nodes, nodes[node].left, lat, lon, id, depth + 1)
                      linked == [r.nodes EXCEPT ![node].left = r.ptr]
                  IN  [nodes |-> update_bounds(linked, node), ptr |-> node]
             ELSE LET r == insert_recursive(nodes, nodes[node].right, lat, lon, id, depth + 1)
                      linked == [r.nodes EXCEPT ![node].right = r.ptr]
                  IN  [nodes |-> update_bounds(linked, node), ptr |-> node]

\* SpatialIndex::insert
SpatialIndex_insert(si, lat, lon, id) ==
    LET r == insert_recursive(si.nodes, si.root_, lat, lon, id, 0)
    IN  [nodes |-> r.nodes, root_ |-> r.ptr, size_ |-> si.size_ + 1]

\* SpatialIndex::clear
SpatialIndex_clear(si) == [nodes |-> <<>>, root_ |-> NULL, size_ |-> 0]

-----------------------------------------------------------------------------
(* temporal_index.cpp: time_index_ is the multimap as the sequence of its  *)
(* (t, id) pairs in iteration order.                                       *)

\* std::multimap::upper_bound: the number of entries with key <= t, which is
\* the position before which the first entry with key > t stands.
upper_bound(time_index, t) ==
    Cardinality({ i \in 1..Len(time_index) : time_index[i][1] <= t })

\* A lower bound that leaves out the entries with key t.
lower_bound_open(time_index, t) ==
    Cardinality({ i \in 1..Len(time_index) : time_index[i][1] <= t })

\* std::multimap::lower_bound: the number of entries with key < t.
lower_bound(time_index, t) ==
    Cardinality({ i \in 1..Len(time_index) : time_index[i][1] < t })

\* The insert of a std::map: an entry whose key is present is not added.
multimap_insert_unique(time_index, t, id) ==
    IF \E i \in 1..Len(time_index) : time_index[i][1] = t
    THEN time_index
    ELSE LET k == upper_bound(time_index, t)
         IN  SubSeq(time_index, 1, k) \o << <<t, id>> >> \o SubSeq(time_index, k + 1, Len(time_index))

\* std::multimap::insert: after the entries of equal key.
multimap_insert(time_index, t, id) ==
    LET k == upper_bound(time_index, t)
    IN  SubSeq(time_index, 1, k) \o << <<t, id>> >> \o SubSeq(time_index, k + 1, Len(time_index))

\* TemporalIndex::insert with the envelope set to the last timestamp.
TemporalIndex_insert_last(ti, t, id) ==
    [time_index_ |-> multimap_insert(ti.time_index_, t, id),
     min_time_   |-> t,
     max_time_   |-> t]

\* TemporalIndex::insert
TemporalIndex_insert(ti, t, id) ==
    [time_index_ |-> multimap_insert(ti.time_index_, t, id),
     min_time_   |-> Min(ti.min_time_, t),
     max_time_   |-> Max(ti.max_time_, t)]

\* TemporalIndex::clear that empties the map and leaves the envelope.
TemporalIndex_clear_keeps_envelope(ti) ==
    [time_index_ |-> <<>>, min_time_ |-> ti.min_time_, max_time_ |-> ti.max_time_]

\* TemporalIndex::clear
TemporalIndex_clear(ti) ==
    [time_index_ |-> <<>>, min_time_ |-> DBL_MAX, max_time_ |-> DBL_LOWEST]

\* What a read through the end iterator of the multimap may yield as the
\* identifier: the memory behind the header node of the tree.
EndReads == { 0, MaxRecords + 1 }

\* TemporalIndex::range_query: the outcomes of the call.  An outcome says
\* whether the call returned and with which identifiers; rejected tells the
\* quick rejection from the walk over the map.  With it_start behind it_end
\* the loop "it != it_end" walks from it_start over the last entry, then
\* dereferences and increments the end iterator, which is undefined: the walk
\* may never meet it_end (the vector grows until the allocation fails and
\* the call does not return), or meet it after reading through the end.
range_query(ti, t_start, t_end) ==
    IF t_end < ti.min_time_ \/ t_start > ti.max_time_
    THEN { [returned |-> TRUE, rejected |-> TRUE, results |-> <<>>] }
    ELSE LET it_start == lower_bound(ti.time_index_, t_start)
             it_end   == upper_bound(ti.time_index_, t_end)
             walk(to) == [i \in 1..(to - it_start) |-> ti.time_index_[it_start + i][2]]
         IN  IF it_start <= it_end
             THEN { [returned |-> TRUE, rejected |-> FALSE, results |-> walk(it_end)] }
             ELSE { [returned |-> FALSE, rejected |-> FALSE,
                     results |-> walk(Len(ti.time_index_))] }
                  \cup
                  { [returned |-> TRUE, rejected |-> FALSE,
                     results |-> walk(Len(ti.time_index_)) \o << g >>] : g \in EndReads }

-----------------------------------------------------------------------------
(* spatial_index.cpp: the queries *)

\* SpatialIndex::radius_query_recursive: results after the call.
RECURSIVE radius_query_recursive(_, _, _, _, _, _)
radius_query_recursive(nodes, node, center_lat, center_lon, radius_m, results) ==
    IF node = NULL
    THEN results
    ELSE LET n            == nodes[node]
             dist         == haversine_distance(center_lat, center_lon, n.point[1], n.point[2])
             r1           == IF dist <= radius_m THEN Append(results, n.id) ELSE results
             axis         == n.axis
             center_value == IF axis = 0 THEN center_lat ELSE center_lon
             node_value   == n.point[axis + 1]
             plane_dist_m == IF axis = 0
                             THEN haversine_distance(center_lat, center_lon, node_value, center_lon)
                             ELSE haversine_distance(center_lat, center_lon, center_lat, node_value)
             explore_left  == ~(plane_dist_m > radius_m /\ ~(center_value < node_value))
             explore_right == ~(plane_dist_m > radius_m /\ center_value < node_value)
             r2 == IF explore_left
                   THEN radius_query_recursive(nodes, n.left, center_lat, center_lon, radius_m, r1)
                   ELSE r1
         IN  IF explore_right
             THEN radius_query_recursive(nodes, n.right, center_lat, center_lon, radius_m, r2)
             ELSE r2

\* SpatialQueryStats::reset; also a default-constructed SpatialQueryStats
SpatialQueryStats_reset ==
    [nodes_visited |-> 0, distance_checks |-> 0, bbox_prunes |-> 0, distance_prunes |-> 0]

\* SpatialIndex::radius_query_instrumented_recursive: results and stats after
\* the call, as the record rs.
RECURSIVE radius_query_instrumented_recursive(_, _, _, _, _, _)
radius_query_instrumented_recursive(nodes, node, center_lat, center_lon, radius_m, rs) ==
    IF node = NULL
    THEN rs
    ELSE LET n            == nodes[node]
             dist         == haversine_distance(center_lat, center_lon, n.point[1], n.point[2])
             axis         == n.axis
             center_value == IF axis = 0 THEN center_lat ELSE center_lon
             node_value   == n.point[axis + 1]
             plane_dist_m == IF axis = 0
                             THEN haversine_distance(center_lat, center_lon, node_value, center_lon)
                             ELSE haversine_distance(center_lat, center_lon, center_lat, node_value)
             rs1 == [results |-> IF dist <= radius_m THEN Append(rs.results, n.id) ELSE rs.results,
                     stats   |-> [rs.stats EXCEPT
                                     !.nodes_visited   = @ + 1,
                                     !.distance_checks = @ + 2,
                                     !.distance_prunes = IF plane_dist_m > radius_m THEN @ + 1 ELSE @]]
             explore_left  == ~(plane_dist_m > radius_m /\ ~(center_value < node_value))
             explore_right == ~(plane_dist_m > radius_m /\ center_value < node_value)
             rs2 == IF explore_left
                    THEN radius_query_instrumented_recursive(nodes, n.left, center_lat, center_lon,
                                                             radius_m, rs1)
                    ELSE rs1
         IN  IF explore_right
             THEN radius_query_instrumented_recursive(nodes, n.right, center_lat, center_lon,
                                                      radius_m, rs2)
             ELSE rs2

\* radius_query_instrumented with the radius left in kilometres.
radius_query_instrumented_km(si, center_lat, center_lon, radius_km) ==
    radius_query_instrumented_recursive(si.nodes, si.root_, center_lat, center_lon,
                                        radius_km,
                                        [results |-> <<>>, stats |-> SpatialQueryStats_reset])

\* SpatialIndex::radius_query_instrumented: the results and the stats.
radius_query_instrumented(si, center_lat, center_lon, radius_km) ==
    radius_query_instrumented_recursive(si.nodes, si.root_, center_lat, center_lon,
                                        radius_km * 1000,
                                        [results |-> <<>>, stats |-> SpatialQueryStats_reset])

\* SpatialIndex::radius_query
radius_query(si, center_lat, center_lon, radius_km) ==
    radius_query_recursive(si.nodes, si.root_, center_lat, center_lon, radius_km * 1000, <<>>)

\* SpatialIndex::in_box
in_box(lat, lon, lat_min, lon_min, lat_max, lon_max) ==
    lat >= lat_min /\ lat <= lat_max /\ lon >= lon_min /\ lon <= lon_max

\* box_query_recursive descending right only when the upper bound is strictly
\* above the split value.
RECURSIVE box_query_recursive_strict(_, _, _, _, _, _, _)
box_query_recursive_strict(nodes, node, lat_min, lon_min, lat_max, lon_max, results) ==
    IF node = NULL
    THEN results
    ELSE LET n          == nodes[node]
             r1         == IF in_box(n.point[1], n.point[2], lat_min, lon_min, lat_max, lon_max)
                           THEN Append(results, n.id)
                           ELSE results
             axis       == n.axis
             node_value == n.point[axis + 1]
             go_left    == IF axis = 0 THEN lat_min <= node_value ELSE lon_min <= node_value
             go_right   == IF axis = 0 THEN lat_max > node_value ELSE lon_max > node_value
             r2 == IF go_left
                   THEN box_query_recursive_strict(nodes, n.left, lat_min, lon_min, lat_max, lon_max, r1)
                   ELSE r1
         IN  IF go_right
             THEN box_query_recursive_strict(nodes, n.right, lat_min, lon_min, lat_max, lon_max, r2)
             ELSE r2

\* SpatialIndex::box_query_recursive: results after the call.
RECURSIVE box_query_recursive(_, _, _, _, _, _, _)
box_query_recursive(nodes, node, lat_min, lon_min, lat_max, lon_max, results) ==
    IF node = NULL
    THEN results
    ELSE LET n          == nodes[node]
             r1         == IF in_box(n.point[1], n.point[2], lat_min, lon_min, lat_max, lon_max)
                           THEN Append(results, n.id)
                           ELSE results
             axis       == n.axis
             node_value == n.point[axis + 1]
             go_left    == IF axis = 0 THEN lat_min <= node_value ELSE lon_min <= node_value
             go_right   == IF axis = 0 THEN lat_max >= node_value ELSE lon_max >= node_value
             r2 == IF go_left
                   THEN box_query_recursive(nodes, n.left, lat_min, lon_min, lat_max, lon_max, r1)
                   ELSE r1
         IN  IF go_right
             THEN box_query_recursive(nodes, n.right, lat_min, lon_min, lat_max, lon_max, r2)
             ELSE r2

\* SpatialIndex::box_query
box_query(si, lat_min, lon_min, lat_max, lon_max) ==
    box_query_recursive(si.nodes, si.root_, lat_min, lon_min, lat_max, lon_max, <<>>)

\* The order of KNNCandidate the heap algorithms use: by distance, the largest
\* on top.
KNNCandidateLess(a, b) == a.distance < b.distance

\* std::__push_heap: value sifted up from the hole at (0-based) holeIndex.
RECURSIVE std_push_heap_from(_, _, _)
std_push_heap_from(heap, holeIndex, value) ==
    LET parent == (holeIndex - 1) \div 2
    IN  IF holeIndex > 0 /\ KNNCandidateLess(heap[parent + 1], value)
        THEN std_push_heap_from([heap EXCEPT ![holeIndex + 1] = heap[parent + 1]], parent, value)
        ELSE [heap EXCEPT ![holeIndex + 1] = value]

\* std::push_heap: the last element enters the heap made of the others.
push_heap(heap) == std_push_heap_from(heap, Len(heap) - 1, heap[Len(heap)])

\* std::__adjust_heap, the descent: the hole moves down to a leaf along the
\* larger children of the first len elements; the heap and the hole's place.
RECURSIVE std_adjust_heap_down(_, _, _)
std_adjust_heap_down(heap, holeIndex, len) ==
    IF holeIndex < (len - 1) \div 2
    THEN LET right == 2 * (holeIndex + 1)
             child == IF KNNCandidateLess(heap[right + 1], heap[right]) THEN right - 1 ELSE right
         IN  std_adjust_heap_down([heap EXCEPT ![holeIndex + 1] = heap[child + 1]], child, len)
    ELSE IF len % 2 = 0 /\ holeIndex = (len - 2) \div 2
         THEN LET child == 2 * (holeIndex + 1) - 1
              IN  [heap |-> [heap EXCEPT ![holeIndex + 1] = heap[child + 1]], hole |-> child]
         ELSE [heap |-> heap, hole |-> holeIndex]

\* std::pop_heap: the top moves to the back, the others stay a heap.
pop_heap(heap) ==
    IF Len(heap) <= 1
    THEN heap
    ELSE LET len   == Len(heap) - 1
             value == heap[Len(heap)]
             moved == [heap EXCEPT ![Len(heap)] = heap[1]]
             down  == std_adjust_heap_down(moved, 0, len)
         IN  std_push_heap_from(down.heap, down.hole, value)

\* SpatialIndex::knn_recursive: candidates after the call.
RECURSIVE knn_recursive(_, _, _, _, _, _)
knn_recursive(nodes, node, query_lat, query_lon, k, candidates) ==
    IF node = NULL
    THEN candidates
    ELSE LET n    == nodes[node]
             dist == haversine_distance(query_lat, query_lon, n.point[1], n.point[2])
             cand == [id |-> n.id, distance |-> dist]
             c1   == IF U64Less(U64(Len(candidates)), k)
                     THEN push_heap(Append(candidates, cand))
                     ELSE IF dist < candidates[1].distance
                          THEN LET popped == pop_heap(candidates)
                               IN  push_heap([popped EXCEPT ![Len(popped)] = cand])
                          ELSE candidates
             axis        == n.axis
             query_value == IF axis = 0 THEN query_lat ELSE query_lon
             node_value  == n.point[axis + 1]
             first       == IF query_value < node_value THEN n.left ELSE n.right
             second      == IF query_value < node_value THEN n.right ELSE n.left
             c2          == knn_recursive(nodes, first, query_lat, query_lon, k, c1)
             plane_dist  == IF axis = 0
                            THEN haversine_distance(query_lat, query_lon, node_value, query_lon)
                            ELSE haversine_distance(query_lat, query_lon, query_lat, node_value)
         IN  IF U64Less(U64(Len(c2)), k) \/ plane_dist < c2[1].distance
             THEN knn_recursive(nodes, second, query_lat, query_lon, k, c2)
             ELSE c2

\* SpatialIndex::knn_query
knn_query(si, lat, lon, k) ==
    IF k = U64(0) \/ si.root_ = NULL
    THEN <<>>
    ELSE LET candidates == knn_recursive(si.nodes, si.root_, lat, lon, k, <<>>)
         IN  [i \in 1..Len(candidates) |-> candidates[i].id]

-----------------------------------------------------------------------------
(* spatio_index_core.cpp: the queries of SpatioIndexCore on the current    *)
(* engine state                                                            *)

\* SpatioIndexCore::size
size == RecordStore_size(record_store_)

\* SpatioIndexCore::get_record_ptr
get_record_ptr(id) == RecordStore_get_record_ptr(record_store_, id)

\* SpatioIndexCore::get_record
get_record(id) ==
    LET ptr == get_record_ptr(id)
    IN  IF ptr # <<>> THEN << ptr[1] >> ELSE <<>>

\* filter_by_time with the end of the range excluded.
filter_by_time_open_end(spatial_ids, t_start, t_end) ==
    LET keep(id) ==
            LET record == RecordStore_get_record_ptr(record_store_, id)
            IN  record # <<>> /\ record[1].t >= t_start /\ record[1].t < t_end
    IN  SelectSeq(spatial_ids, keep)

\* SpatioIndexCore::filter_by_time
filter_by_time(spatial_ids, t_start, t_end) ==
    LET keep(id) ==
            LET record == RecordStore_get_record_ptr(record_store_, id)
            IN  record # <<>> /\ record[1].t >= t_start /\ record[1].t <= t_end
    IN  SelectSeq(spatial_ids, keep)

\* SpatioIndexCore::query_radius
query_radius(center_lat, center_lon, radius_km) ==
    radius_query(spatial_index_, center_lat, center_lon, radius_km)

\* SpatioIndexCore::query_box
query_box(lat_min, lon_min, lat_max, lon_max) ==
    box_query(spatial_index_, lat_min, lon_min, lat_max, lon_max)

\* SpatioIndexCore::query_knn
query_knn(lat, lon, k) == knn_query(spatial_index_, lat, lon, k)

\* The early rejection with "and" in the place of "or".
envelope_rejects_both(t_start, t_end) ==
    t_end < temporal_index_.min_time_ /\ t_start > temporal_index_.max_time_

\* The early rejection of the *_time queries.
envelope_rejects(t_start, t_end) ==
    t_end < temporal_index_.min_time_ \/ t_start > temporal_index_.max_time_

\* SpatioIndexCore::query_radius_time: the result and the SpatialIndex
\* methods invoked.
query_radius_time(center_lat, center_lon, radius_km, t_start, t_end) ==
    IF envelope_rejects(t_start, t_end)
    THEN [val |-> <<>>, calls |-> <<>>]
    ELSE LET spatial_ids == radius_query(spatial_index_, center_lat, center_lon, radius_km)
         IN  [val   |-> filter_by_time(spatial_ids, t_start, t_end),
              calls |-> << "radius_query" >>]

\* SpatioIndexCore::query_box_time
query_box_time(lat_min, lon_min, lat_max, lon_max, t_start, t_end) ==
    IF envelope_rejects(t_start, t_end)
    THEN [val |-> <<>>, calls |-> <<>>]
    ELSE LET spatial_ids == box_query(spatial_index_, lat_min, lon_min, lat_max, lon_max)
         IN  [val   |-> filter_by_time(spatial_ids, t_start, t_end),
              calls |-> << "box_query" >>]

\* The number of spatial neighbours query_knn_time asks for.
fetch_k_of(k) == U64Min(U64Mul3(k), U64(size))

\* SpatioIndexCore::query_knn_time
query_knn_time(lat, lon, k, t_start, t_end) ==
    IF envelope_rejects(t_start, t_end)
    THEN [val |-> <<>>, calls |-> <<>>]
    ELSE LET fetch_k == fetch_k_of(k)
         IN  IF fetch_k = U64(0)
             THEN [val |-> <<>>, calls |-> <<>>]
             ELSE LET spatial_ids   == knn_query(spatial_index_, lat, lon, fetch_k)
                      time_filtered == filter_by_time(spatial_ids, t_start, t_end)
                  IN  [val   |-> IF U64Less(k, U64(Len(time_filtered)))
                                 THEN SubSeq(time_filtered, 1, U64ToNat(k))
                                 ELSE time_filtered,
                       calls |-> << "knn_query" >>]

\* A reset that leaves one counter of the time filter as it was.
QueryStats_stale ==
    [spatial_nodes_visited      |-> 0,
     spatial_distance_checks    |-> 0,
     spatial_bbox_prunes        |-> 0,
     spatial_distance_prunes    |-> 0,
     records_filtered_by_time   |-> 1,
     records_passed_time_filter |-> 0,
     result_count               |-> 0]

\* QueryStats::reset
QueryStats_reset ==
    [spatial_nodes_visited      |-> 0,
     spatial_distance_checks    |-> 0,
     spatial_bbox_prunes        |-> 0,
     spatial_distance_prunes    |-> 0,
     records_filtered_by_time   |-> 0,
     records_passed_time_filter |-> 0,
     result_count               |-> 0]

\* SpatioIndexCore::filter_by_time_instrumented over spatial_ids[from..]: the
\* results and the stats after the loop, as the record rs.
RECURSIVE filter_by_time_instrumented(_, _, _, _, _)
filter_by_time_instrumented(spatial_ids, from, t_start, t_end, rs) ==
    IF from > Len(spatial_ids)
    THEN rs
    ELSE LET id     == spatial_ids[from]
             record == RecordStore_get_record_ptr(record_store_, id)
             rs1    == IF record # <<>>
                       THEN IF record[1].t >= t_start /\ record[1].t <= t_end
                            THEN [results |-> Append(rs.results, id),
                                  stats   |-> [rs.stats EXCEPT !.records_passed_time_filter = @ + 1]]
                            ELSE [results |-> rs.results,
                                  stats   |-> [rs.stats EXCEPT !.records_filtered_by_time = @ + 1]]
                       ELSE rs
         IN  filter_by_time_instrumented(spatial_ids, from + 1, t_start, t_end, rs1)

\* SpatioIndexCore::query_radius_time_instrumented: the result, the caller's
\* stats after the call (stats are those before it) and the SpatialIndex
\* methods invoked.
query_radius_time_instrumented(center_lat, center_lon, radius_km, t_start, t_end, stats) ==
    LET stats0 == QueryStats_reset
    IN  IF envelope_rejects(t_start, t_end)
        THEN [val |-> <<>>, stats |-> stats0, calls |-> <<>>]
        ELSE LET spatial == radius_query_instrumented(spatial_index_, center_lat, center_lon,
                                                      radius_km)
                 stats1  == [stats0 EXCEPT
                                !.spatial_nodes_visited   = spatial.stats.nodes_visited,
                                !.spatial_distance_checks = spatial.stats.distance_checks,
                                !.spatial_bbox_prunes     = spatial.stats.bbox_prunes,
                                !.spatial_distance_prunes = spatial.stats.distance_prunes]
                 filtered == filter_by_time_instrumented(spatial.results, 1, t_start, t_end,
                                                         [results |-> <<>>, stats |-> stats1])
             IN  [val   |-> filtered.results,
                  stats |-> [filtered.stats EXCEPT !.result_count = Len(filtered.results)],
                  calls |-> << "radius_query_instrumented" >>]

-----------------------------------------------------------------------------
(* spatio_index_core.cpp: the operations that change the engine *)

Init ==
    /\ record_store_ = [records_ |-> <<>>, id_to_index_ |-> <<>>, next_id_ |-> 1]
    /\ spatial_index_ = [nodes |-> <<>>, root_ |-> NULL, size_ |-> 0]
    /\ temporal_index_ = [time_index_ |-> <<>>, min_time_ |-> DBL_MAX, max_time_ |-> DBL_LOWEST]
    /\ build_completed_ = FALSE
    /\ ret = [op |-> "new", args |-> <<>>, val |-> <<>>]
    /\ spatial_calls = <<>>
    /\ issued = <<>>
    /\ inflight = <<>>

\* One record through the three components, as insert and the body of the
\* loop of bulk_insert do it: Record Table, Spatial Tree, Temporal Index.
insert_one(e, lat, lon, t) ==
    LET added == add_record(e.record_store_, lat, lon, t)
    IN  [record_store_   |-> added.store,
         spatial_index_  |-> SpatialIndex_insert(e.spatial_index_, lat, lon, added.id),
         temporal_index_ |-> TemporalIndex_insert(e.temporal_index_, t, added.id),
         ids             |-> Append(e.ids, added.id)]

\* The loop of bulk_insert over records[from..].
RECURSIVE bulk_insert_loop(_, _, _)
bulk_insert_loop(e, records, from) ==
    IF from > Len(records)
    THEN e
    ELSE bulk_insert_loop(insert_one(e, records[from][1], records[from][2], records[from][3]),
                          records, from + 1)

Engine ==
    [record_store_   |-> record_store_,
     spatial_index_  |-> spatial_index_,
     temporal_index_ |-> temporal_index_,
     ids             |-> <<>>]

\* SpatioIndexCore::insert
Insert(lat, lon, t) ==
    /\ size < MaxRecords
    /\ LET e == insert_one(Engine, lat, lon, t)
       IN  /\ record_store_' = e.record_store_
           /\ spatial_index_' = e.spatial_index_
           /\ temporal_index_' = e.temporal_index_
           /\ build_completed_' = FALSE
           /\ ret' = [op |-> "insert", args |-> <<lat, lon, t>>, val |-> e.ids[1]]
           /\ spatial_calls' = << "insert" >>
           /\ issued' = Append(issued, << e.ids[1], <<lat, lon, t>> >>)
           /\ UNCHANGED inflight

\* bulk_insert that returns early on an empty batch, before the flag is set.
BulkInsert_empty_returns_early(records) ==
    /\ size + Len(records) <= MaxRecords
    /\ LET e == bulk_insert_loop(Engine, records, 1)
       IN  /\ record_store_' = e.record_store_
           /\ spatial_index_' = e.spatial_index_
           /\ temporal_index_' = e.temporal_index_
           /\ build_completed_' = IF records = <<>> THEN build_completed_ ELSE FALSE
           /\ ret' = [op |-> "bulk_insert", args |-> records, val |-> e.ids]
           /\ spatial_calls' = [i \in 1..Len(records) |-> "insert"]
           /\ issued' = issued \o [i \in 1..Len(e.ids) |->
                                     << e.ids[i], records[IF i <= Len(records) THEN i ELSE 1] >>]
           /\ UNCHANGED inflight

\* SpatioIndexCore::bulk_insert
BulkInsert(records) ==
    /\ size + Len(records) <= MaxRecords
    /\ LET e == bulk_insert_loop(Engine, records, 1)
       IN  /\ record_store_' = e.record_store_
           /\ spatial_index_' = e.spatial_index_
           /\ temporal_index_' = e.temporal_index_
           /\ build_completed_' = FALSE
           /\ ret' = [op |-> "bulk_insert", args |-> records, val |-> e.ids]
           /\ spatial_calls' = [i \in 1..Len(records) |-> "insert"]
           /\ issued' = issued \o [i \in 1..Len(e.ids) |->
                                     << e.ids[i], records[IF i <= Len(records) THEN i ELSE 1] >>]
           /\ UNCHANGED inflight

\* SpatioIndexCore::build
Build ==
    /\ build_completed_' = TRUE
    /\ ret' = [op |-> "build", args |-> <<>>, val |-> <<>>]
    /\ spatial_calls' = <<>>
    /\ UNCHANGED <<record_store_, spatial_index_, temporal_index_, issued, inflight>>

\* SpatioIndexCore::clear
Clear ==
    /\ record_store_' = RecordStore_clear(record_store_)
    /\ spatial_index_' = SpatialIndex_clear(spatial_index_)
    /\ temporal_index_' = TemporalIndex_clear(temporal_index_)
    /\ build_completed_' = FALSE
    /\ ret' = [op |-> "clear", args |-> <<>>, val |-> <<>>]
    /\ spatial_calls' = << "clear" >>
    /\ issued' = <<>>
    /\ UNCHANGED inflight

\* SpatioIndexCore::get_index_stats
get_index_stats ==
    [total_records    |-> RecordStore_size(record_store_),
     spatial_nodes    |-> spatial_index_.size_,
     temporal_entries |-> Len(temporal_index_.time_index_),
     min_time         |-> temporal_index_.min_time_,
     max_time         |-> temporal_index_.max_time_,
     is_built         |-> build_completed_]

\* A query leaves the engine as it is.
Query(op, args, val, calls) ==
    /\ ret' = [op |-> op, args |-> args, val |-> val]
    /\ spatial_calls' = calls
    /\ UNCHANGED <<record_store_, spatial_index_, temporal_index_, build_completed_, issued,
                   inflight>>

GetRecord(id) == Query("get_record", <<id>>, get_record(id), <<>>)

GetIndexStats == Query("get_index_stats", <<>>, get_index_stats, <<>>)

\* TemporalIndex::range_query on the temporal index of the engine.
RangeQuery(t_start, t_end) ==
    \E outcome \in range_query(temporal_index_, t_start, t_end) :
        Query("range_query", <<t_start, t_end>>, outcome, <<>>)

QueryRadius(center_lat, center_lon, radius_km) ==
    Query("query_radius", <<center_lat, center_lon, radius_km>>,
          query_radius(center_lat, center_lon, radius_km), << "radius_query" >>)

QueryBox(lat_min, lon_min, lat_max, lon_max) ==
    Query("query_box", <<lat_min, lon_min, lat_max, lon_max>>,
          query_box(lat_min, lon_min, lat_max, lon_max), << "box_query" >>)

QueryKnn(lat, lon, k) ==
    Query("query_knn", <<lat, lon, k>>, query_knn(lat, lon, k), << "knn_query" >>)

QueryRadiusTime(center_lat, center_lon, radius_km, t_start, t_end) ==
    LET r == query_radius_time(center_lat, center_lon, radius_km, t_start, t_end)
    IN  Query("query_radius_time", <<center_lat, center_lon, radius_km, t_start, t_end>>,
              r.val, r.calls)

QueryBoxTime(lat_min, lon_min, lat_max, lon_max, t_start, t_end) ==
    LET r == query_box_time(lat_min, lon_min, lat_max, lon_max, t_start, t_end)
    IN  Query("query_box_time", <<lat_min, lon_min, lat_max, lon_max, t_start, t_end>>,
              r.val, r.calls)

QueryKnnTime(lat, lon, k, t_start, t_end) ==
    LET r == query_knn_time(lat, lon, k, t_start, t_end)
    IN  Query("query_knn_time", <<lat, lon, k, t_start, t_end>>, r.val, r.calls)

QueryRadiusTimeInstrumented(center_lat, center_lon, radius_km, t_start, t_end, stats) ==
    LET r == query_radius_time_instrumented(center_lat, center_lon, radius_km,
                                            t_start, t_end, stats)
    IN  Query("query_radius_time_instrumented",
              <<center_lat, center_lon, radius_km, t_start, t_end, stats>>,
              [ids |-> r.val, stats |-> r.stats], r.calls)

-----------------------------------------------------------------------------
(* spatio_index_core.cpp: insert and bulk_insert statement by statement,   *)
(* as a reader in another thread meets them.  inflight holds the call: its *)
(* operation, its records, the identifiers obtained so far and the         *)
(* statement it stands before.                                             *)

\* The order of the statements with the Temporal Index before the Spatial
\* Tree.
next_statement_temporal_first(at, more) ==
    CASE at = "add_record"      -> "temporal_insert"
      [] at = "temporal_insert" -> "spatial_insert"
      [] at = "spatial_insert"  -> IF more THEN "add_record" ELSE "return"

\* The statement that follows statement at in insert and in the loop of
\* bulk_insert; more says that the loop has a further record.
next_statement(at, more) ==
    CASE at = "add_record"      -> "spatial_insert"
      [] at = "spatial_insert"  -> "temporal_insert"
      [] at = "temporal_insert" -> IF more THEN "add_record" ELSE "return"

\* The record the call in progress is working on, and its identifier.
inflight_record == inflight.records[Len(inflight.ids)]

inflight_id == inflight.ids[Len(inflight.ids)]

\* The entry into insert (one record) or bulk_insert.
Call(op, records) ==
    /\ inflight = <<>>
    /\ size + Len(records) <= MaxRecords
    /\ inflight' = [op |-> op, records |-> records, ids |-> <<>>,
                    at |-> IF records = <<>> THEN "return" ELSE "add_record"]
    /\ UNCHANGED <<record_store_, spatial_index_, temporal_index_, build_completed_,
                   ret, spatial_calls, issued>>

\* uint64_t id = record_store_.add_record(lat, lon, t); ids.push_back(id);
StepAddRecord ==
    /\ inflight # <<>> /\ inflight.at = "add_record"
    /\ LET rec   == inflight.records[Len(inflight.ids) + 1]
           added == add_record(record_store_, rec[1], rec[2], rec[3])
       IN  /\ record_store_' = added.store
           /\ issued' = Append(issued, << added.id, rec >>)
           /\ inflight' = [inflight EXCEPT !.ids = Append(@, added.id),
                                           !.at  = next_statement("add_record", FALSE)]
    /\ UNCHANGED <<spatial_index_, temporal_index_, build_completed_, ret, spatial_calls>>

\* spatial_index_.insert(lat, lon, id);
StepSpatialInsert ==
    /\ inflight # <<>> /\ inflight.at = "spatial_insert"
    /\ spatial_index_' = SpatialIndex_insert(spatial_index_, inflight_record[1],
                                             inflight_record[2], inflight_id)
    /\ inflight' = [inflight EXCEPT
                        !.at = next_statement("spatial_insert",
                                              Len(inflight.ids) < Len(inflight.records))]
    /\ UNCHANGED <<record_store_, temporal_index_, build_completed_, ret, spatial_calls, issued>>

\* temporal_index_.insert(t, id);
StepTemporalInsert ==
    /\ inflight # <<>> /\ inflight.at = "temporal_insert"
    /\ temporal_index_' = TemporalIndex_insert(temporal_index_, inflight_record[3], inflight_id)
    /\ inflight' = [inflight EXCEPT
                        !.at = next_statement("temporal_insert",
                                              Len(inflight.ids) < Len(inflight.records))]
    /\ UNCHANGED <<record_store_, spatial_index_, build_completed_, ret, spatial_calls, issued>>

\* build_completed_ = false; return id; (return ids; in bulk_insert)
StepReturn ==
    /\ inflight # <<>> /\ inflight.at = "return"
    /\ build_completed_' = FALSE
    /\ ret' = IF inflight.op = "insert"
              THEN [op |-> "insert", args |-> inflight.records[1], val |-> inflight.ids[1]]
              ELSE [op |-> "bulk_insert", args |-> inflight.records, val |-> inflight.ids]
    /\ spatial_calls' = [i \in 1..Len(inflight.records) |-> "insert"]
    /\ inflight' = <<>>
    /\ UNCHANGED <<record_store_, spatial_index_, temporal_index_, issued>>

-----------------------------------------------------------------------------
(* Specifications *)

\* What the caller's QueryStats may hold before an instrumented query: a fresh
\* object, or the counters of an earlier call.
PriorStats ==
    { QueryStats_reset,
      [spatial_nodes_visited      |-> 3,
       spatial_distance_checks    |-> 6,
       spatial_bbox_prunes        |-> 0,
       spatial_distance_prunes    |-> 1,
       records_filtered_by_time   |-> 1,
       records_passed_time_filter |-> 2,
       result_count               |-> 2] }

\* The batches of bulk_insert.
Batches(In) == UNION { [1..n -> In] : n \in 0..MaxBulk }

\* The identifiers get_record is asked for.
Ids == 0..(MaxRecords + 1)

DoInsert(In) == \E in \in In : Insert(in[1], in[2], in[3])

DoBulkInsert(In) == \E records \in Batches(In) : BulkInsert(records)

DoGetRecord == \E id \in Ids : GetRecord(id)

DoQueryRadius == \E c \in Centers, r \in Radii : QueryRadius(c[1], c[2], r)

DoQueryBox ==
    \E lat_min \in BoxLats, lat_max \in BoxLats, lon_min \in BoxLons, lon_max \in BoxLons :
        QueryBox(lat_min, lon_min, lat_max, lon_max)

DoQueryKnn == \E c \in Centers, k \in KValues : QueryKnn(c[1], c[2], k)

DoQueryRadiusTime(C, R, TR) ==
    \E c \in C, r \in R, tr \in TR : QueryRadiusTime(c[1], c[2], r, tr[1], tr[2])

DoQueryBoxTime(B, TR) ==
    \E b \in B, tr \in TR : QueryBoxTime(b[1], b[2], b[3], b[4], tr[1], tr[2])

DoQueryKnnTime(C, K, TR) ==
    \E c \in C, k \in K, tr \in TR : QueryKnnTime(c[1], c[2], k, tr[1], tr[2])

DoQueryRadiusTimeInstrumented(C, R, TR) ==
    \E c \in C, r \in R, tr \in TR, stats \in PriorStats :
        QueryRadiusTimeInstrumented(c[1], c[2], r, tr[1], tr[2], stats)

\* The engine with its data access and statistics.
Next == DoInsert(MixedInputs) \/ DoBulkInsert(MixedInputs) \/ Build \/ Clear \/ DoGetRecord \/ GetIndexStats

Spec == Init /\ [][Next]_vars

\* The engine with the radius query.
NextRadius == DoInsert(SpatialInputs) \/ DoBulkInsert(SpatialInputs) \/ Clear \/ DoQueryRadius

SpecRadius == Init /\ [][NextRadius]_vars

\* The engine with the box query.
NextBox == DoInsert(SpatialInputs) \/ DoBulkInsert(SpatialInputs) \/ Clear \/ DoQueryBox

SpecBox == Init /\ [][NextBox]_vars

\* The engine with the k-NN query.
NextKnn == DoInsert(SpatialInputs) \/ DoBulkInsert(SpatialInputs) \/ Clear \/ DoQueryKnn

SpecKnn == Init /\ [][NextKnn]_vars

\* The engine with the radius and box queries under a time range.
NextSpaceTime ==
    \/ DoInsert(TimedInputs) \/ DoBulkInsert(TimedInputs) \/ Clear
    \/ DoQueryRadiusTime(TimeCenters, TimeRadii, TimeRanges)
    \/ DoQueryBoxTime(TimeBoxes, TimeRanges)

SpecSpaceTime == Init /\ [][NextSpaceTime]_vars

\* The engine with the k-NN query under a time range.
NextKnnTime ==
    \/ DoInsert(TimedInputs) \/ DoBulkInsert(TimedInputs) \/ Clear
    \/ DoQueryKnnTime(TimeCenters, KValues, TimeRanges)

SpecKnnTime == Init /\ [][NextKnnTime]_vars

\* The engine with the four queries that reject by the envelope.
NextEnvelope ==
    \/ DoInsert(TimedInputs) \/ DoBulkInsert(TimedInputs) \/ Clear
    \/ DoQueryRadiusTime(TimeCenters, { 20100 }, TimeRanges)
    \/ DoQueryBoxTime({ <<0, 0, 85, 179>> }, TimeRanges)
    \/ DoQueryKnnTime(TimeCenters, { U64(1), U64(2) }, TimeRanges)
    \/ DoQueryRadiusTimeInstrumented(TimeCenters, { 20100 }, TimeRanges)

SpecEnvelope == Init /\ [][NextEnvelope]_vars

\* Records on both sides of the antimeridian and near the pole, at two times.
InstrumentedInputs == { <<0, 0, 1>>, <<0, 170, 2>>, <<0, -179, 1>>, <<80, 90, 2>> }

InstrumentedCenters == { <<0, 179>>, <<80, 0>> }

InstrumentedRadii == { 500, 1300, 20100 }

InstrumentedRanges == { <<1, 1>>, <<1, 2>>, <<2, 1>> }

\* The engine with the radius query under a time range, plain and
\* instrumented.
NextInstrumented ==
    \/ DoInsert(InstrumentedInputs) \/ Clear
    \/ DoQueryRadiusTime(InstrumentedCenters, InstrumentedRadii, InstrumentedRanges)
    \/ DoQueryRadiusTimeInstrumented(InstrumentedCenters, InstrumentedRadii, InstrumentedRanges)

SpecInstrumented == Init /\ [][NextInstrumented]_vars

\* The records of the calls that run statement by statement.
StepInputs == { <<0, 170, 1>>, <<80, 90, 2>> }

StepRanges == { <<1, 1>>, <<1, 2>> }

DoCall ==
    \/ \E in \in StepInputs : Call("insert", << in >>)
    \/ \E records \in Batches(StepInputs) : Call("bulk_insert", records)

\* A writer that runs insert and bulk_insert statement by statement, and a
\* reader that queries between any two statements.
NextSteps ==
    \/ DoCall \/ StepAddRecord \/ StepSpatialInsert \/ StepTemporalInsert \/ StepReturn
    \/ (inflight = <<>> /\ Clear)
    \/ DoQueryRadiusTime(TimeCenters, { 20100 }, StepRanges)
    \/ DoGetRecord

SpecSteps == Init /\ [][NextSteps]_vars

\* The inputs of the temporal index: one place, three timestamps.
TemporalInputs == { <<0, 0, t>> : t \in 1..3 }

\* The bounds of the ranges asked of the temporal index, both orders.
RangeBounds == 0..4

DoRangeQuery(TR) == \E tr \in TR : RangeQuery(tr[1], tr[2])

\* The engine with the range query of its temporal index.
NextTemporal ==
    \/ DoInsert(TemporalInputs) \/ DoBulkInsert(TemporalInputs) \/ Clear
    \/ DoRangeQuery(RangeBounds \X RangeBounds)

SpecTemporal == Init /\ [][NextTemporal]_vars

\* Time ranges up to the largest and the lowest double.
SentinelRanges ==
    { <<DBL_LOWEST, DBL_MAX>>, <<DBL_LOWEST, 0>>, <<3, DBL_MAX>>, <<DBL_MAX, DBL_MAX>>,
      <<DBL_LOWEST, DBL_LOWEST>>, <<1, 2>>, <<0, 0>>, <<2, 1>> }

\* The engine with the queries under time ranges that reach the sentinels.
NextSentinel ==
    \/ DoInsert(TimedInputs) \/ Clear
    \/ DoQueryRadiusTime(TimeCenters, { 20100 }, SentinelRanges)
    \/ DoQueryBoxTime({ <<0, 0, 85, 179>> }, SentinelRanges)
    \/ DoQueryKnnTime(TimeCenters, { U64(1) }, SentinelRanges)
    \/ DoQueryRadiusTimeInstrumented(TimeCenters, { 20100 }, SentinelRanges)
    \/ DoRangeQuery(SentinelRanges)

SpecSentinel == Init /\ [][NextSentinel]_vars

-----------------------------------------------------------------------------
(* Properties *)

Range(s) == { s[i] : i \in DOMAIN s }

NoDuplicates(s) == \A i, j \in DOMAIN s : i # j => s[i] # s[j]

\* The stored records, as the Record Table holds them.
Stored == Range(record_store_.records_)

\* The identifiers of the stored records within radius_km of the center.
WithinRadius(center_lat, center_lon, radius_km) ==
    { r.id : r \in { x \in Stored :
                       haversine_distance(center_lat, center_lon, x.lat, x.lon)
                           <= radius_km * 1000 } }

\* C1: query_radius returns exactly the identifiers of the stored records
\* whose Haversine distance to the center is at most the radius, each once,
\* for every center, those near the pole and near the +/-180 meridian included.
C1_RadiusExact ==
    ret.op = "query_radius" =>
        /\ Range(ret.val) = WithinRadius(ret.args[1], ret.args[2], ret.args[3])
        /\ NoDuplicates(ret.val)

\* The distance from the query point (lat, lon) to the stored record of this id.
DistanceOf(lat, lon, id) ==
    LET r == CHOOSE x \in Stored : x.id = id
    IN  haversine_distance(lat, lon, r.lat, r.lon)

\* min(k, n) for a 64-bit k and a container size n
MinWithSize(k, n) == IF U64Less(k, U64(n)) THEN U64ToNat(k) ELSE n

\* C2: query_knn(q, k) returns min(k, N) distinct identifiers, and no stored
\* record that was not returned is strictly closer to q than a returned one.
C2_KnnNearest ==
    ret.op = "query_knn" =>
        /\ Len(ret.val) = MinWithSize(ret.args[3], size)
        /\ NoDuplicates(ret.val)
        /\ Range(ret.val) \subseteq { r.id : r \in Stored }
        /\ \A in \in Range(ret.val) : \A out \in Stored :
              out.id \notin Range(ret.val) =>
                  DistanceOf(ret.args[1], ret.args[2], in)
                      <= haversine_distance(ret.args[1], ret.args[2], out.lat, out.lon)

\* The identifiers of the stored records inside the closed box.
InsideBox(lat_min, lon_min, lat_max, lon_max) ==
    { r.id : r \in { x \in Stored : /\ lat_min <= x.lat /\ x.lat <= lat_max
                                    /\ lon_min <= x.lon /\ x.lon <= lon_max } }

\* C3: query_box returns exactly the identifiers of the stored records inside
\* the closed box, each once, and nothing for a reversed box.
C3_BoxExact ==
    ret.op = "query_box" =>
        /\ Range(ret.val) = InsideBox(ret.args[1], ret.args[2], ret.args[3], ret.args[4])
        /\ NoDuplicates(ret.val)
        /\ (ret.args[3] < ret.args[1] \/ ret.args[4] < ret.args[2]) => ret.val = <<>>

\* A box query returned a record that lies on the box's upper latitude edge and
\* on the split value of its parent.
C3_Witness ==
    /\ ret.op = "query_box"
    /\ \E p, c \in DOMAIN spatial_index_.nodes :
          LET parent == spatial_index_.nodes[p]
              child  == spatial_index_.nodes[c]
          IN  /\ parent.right = c
              /\ parent.axis = 0
              /\ child.point[1] = parent.point[1]
              /\ child.point[1] = ret.args[3]
              /\ child.id \in Range(ret.val)

\* The timestamp of the stored record of this id.
TimeOf(id) == (CHOOSE x \in Stored : x.id = id).t

\* ids without those whose record's timestamp is outside [a, b], in order.
KeptByTime(ids, a, b) ==
    LET inside(id) == a <= TimeOf(id) /\ TimeOf(id) <= b
    IN  SelectSeq(ids, inside)

\* C4: query_radius_time is query_radius with exactly the identifiers removed
\* whose timestamp is outside [t_start, t_end], in the spatial query's order,
\* and query_box_time is query_box filtered the same way.
C4_TimeFilter ==
    /\ ret.op = "query_radius_time" =>
          ret.val = KeptByTime(query_radius(ret.args[1], ret.args[2], ret.args[3]),
                               ret.args[4], ret.args[5])
    /\ ret.op = "query_box_time" =>
          ret.val = KeptByTime(query_box(ret.args[1], ret.args[2], ret.args[3], ret.args[4]),
                               ret.args[5], ret.args[6])

\* A radius query under a time range kept two identifiers and removed another.
C4_Witness ==
    /\ ret.op = "query_radius_time"
    /\ Len(ret.val) >= 2
    /\ Len(ret.val) < Len(query_radius(ret.args[1], ret.args[2], ret.args[3]))

\* The time range of the last *_time query.
RetRange ==
    IF ret.op = "query_box_time" THEN <<ret.args[5], ret.args[6]>>
    ELSE IF ret.op = "range_query" THEN <<ret.args[1], ret.args[2]>>
    ELSE <<ret.args[4], ret.args[5]>>

\* C5: a *_time query whose range lies below min_time or above max_time
\* returns the empty sequence without a call into the spatial tree, and the
\* instrumented query leaves every counter of its statistics 0.
C5_EnvelopeRejection ==
    ( /\ ret.op \in { "query_radius_time", "query_box_time", "query_knn_time",
                      "query_radius_time_instrumented" }
      /\ \/ RetRange[2] < temporal_index_.min_time_
         \/ RetRange[1] > temporal_index_.max_time_ )
    => /\ spatial_calls = <<>>
       /\ IF ret.op = "query_radius_time_instrumented"
          THEN /\ ret.val.ids = <<>>
               /\ ret.val.stats.spatial_nodes_visited = 0
               /\ \A f \in DOMAIN ret.val.stats : ret.val.stats[f] = 0
          ELSE ret.val = <<>>

\* The instrumented query was rejected by the envelope on an engine that holds
\* records, with counters of an earlier call in the caller's statistics.
C5_Witness ==
    /\ ret.op = "query_radius_time_instrumented"
    /\ size > 0
    /\ RetRange[1] > temporal_index_.max_time_
    /\ RetRange[1] <= RetRange[2]
    /\ ret.args[6].spatial_nodes_visited > 0
    /\ ret.val.ids = <<>>

\* min(3k, n) over the integers for a 64-bit k and a container size n
MinTripleWithSize(k, n) ==
    IF U64Less(k, U64(n)) THEN Min(3 * U64ToNat(k), n) ELSE n

\* The first k elements of s, all of s when it has no more than k.
FirstK(s, k) == IF U64Less(k, U64(Len(s))) THEN SubSeq(s, 1, U64ToNat(k)) ELSE s

\* C6: query_knn_time(q, k, a, b) is the first k of query_knn(q, min(3k, N))
\* filtered by a <= t <= b; so it has at most k identifiers, all with a
\* timestamp in the range, and none when k = 0 or N = 0.
C6_KnnTimeWindow ==
    ret.op = "query_knn_time" =>
        LET k      == ret.args[3]
            window == query_knn(ret.args[1], ret.args[2], U64(MinTripleWithSize(k, size)))
        IN  /\ ret.val = FirstK(KeptByTime(window, ret.args[4], ret.args[5]), k)
            /\ ~U64Less(k, U64(Len(ret.val)))
            /\ \A id \in Range(ret.val) : ret.args[4] <= TimeOf(id) /\ TimeOf(id) <= ret.args[5]
            /\ (k = U64(0) \/ size = 0) => ret.val = <<>>

\* What get_record(id) is to return: the record of the insert that returned
\* id since the last clear, nothing for any other id.
ExpectedRecord(id) ==
    IF \E i \in DOMAIN issued : issued[i][1] = id
    THEN LET in == issued[CHOOSE i \in DOMAIN issued : issued[i][1] = id][2]
         IN  << Record(in[1], in[2], in[3], id) >>
    ELSE <<>>

\* C7: get_record(id) returns the (lat, lon, t) passed to the insert that
\* returned id, with that id, for every id issued since the last clear, and
\* the absent value for every other id (0, ids not yet issued, ids issued
\* only before the last clear).
C7_GetRecord ==
    /\ \A id \in Ids : get_record(id) = ExpectedRecord(id)
    /\ ret.op = "get_record" => ret.val = ExpectedRecord(ret.args[1])

\* get_record returned the first record after two more inserts followed it.
C7_Witness ==
    /\ ret.op = "get_record"
    /\ ret.args[1] = 1
    /\ Len(issued) >= 3
    /\ ret.val # <<>>
    /\ ret.val[1].t = issued[1][2][3]

\* C8: the i-th record inserted since creation or the last clear has
\* identifier i, so the identifiers issued are exactly 1..size(); bulk_insert
\* returns one id per input record, the j-th id for the j-th record.
C8_DenseIds ==
    /\ \A i \in DOMAIN issued : issued[i][1] = i
    /\ Len(issued) = size
    /\ ret.op = "insert" => ret.val = size
    /\ ret.op = "bulk_insert" =>
          /\ Len(ret.val) = Len(ret.args)
          /\ \A j \in DOMAIN ret.args :
                /\ ret.val[j] = size - Len(ret.args) + j
                /\ Record(ret.args[j][1], ret.args[j][2], ret.args[j][3], ret.val[j]) \in Stored
                /\ \A r \in Stored : r.id = ret.val[j] =>
                       r = Record(ret.args[j][1], ret.args[j][2], ret.args[j][3], ret.val[j])

\* bulk_insert of two different records onto an engine that held one.
C8_Witness ==
    /\ ret.op = "bulk_insert"
    /\ ret.val = <<2, 3>>
    /\ ret.args[1] # ret.args[2]

\* The nodes of the subtree rooted at node, in pre-order.
RECURSIVE SubtreeNodes(_, _)
SubtreeNodes(nodes, node) ==
    IF node = NULL
    THEN <<>>
    ELSE <<node>> \o SubtreeNodes(nodes, nodes[node].left)
                  \o SubtreeNodes(nodes, nodes[node].right)

\* The nodes of the Spatial Tree.
TreeNodes == SubtreeNodes(spatial_index_.nodes, spatial_index_.root_)

\* The identifiers in the Record Table, on the Spatial Tree and in the
\* Temporal Index, one per row, node and entry.
TableIds == [i \in DOMAIN record_store_.records_ |-> record_store_.records_[i].id]

TreeIds == [i \in DOMAIN TreeNodes |-> spatial_index_.nodes[TreeNodes[i]].id]

TemporalIds ==
    [i \in DOMAIN temporal_index_.time_index_ |-> temporal_index_.time_index_[i][2]]

\* C9: the Record Table, the Spatial Tree and the Temporal Index hold the
\* same identifiers, each exactly once; a node has its record's coordinates
\* and an entry its record's timestamp; and get_index_stats reports
\* total_records = spatial_nodes = temporal_entries.
C9_Identity ==
    /\ NoDuplicates(TableIds) /\ NoDuplicates(TreeIds) /\ NoDuplicates(TemporalIds)
    /\ Range(TreeIds) = Range(TableIds)
    /\ Range(TemporalIds) = Range(TableIds)
    /\ \A i \in DOMAIN TreeNodes :
          LET n == spatial_index_.nodes[TreeNodes[i]]
          IN  \E r \in Stored : r.id = n.id /\ r.lat = n.point[1] /\ r.lon = n.point[2]
    /\ \A i \in DOMAIN temporal_index_.time_index_ :
          LET e == temporal_index_.time_index_[i]
          IN  \E r \in Stored : r.id = e[2] /\ r.t = e[1]
    /\ get_index_stats.total_records = Len(TableIds)
    /\ get_index_stats.spatial_nodes = Len(TreeIds)
    /\ get_index_stats.temporal_entries = Len(TemporalIds)
    /\ get_index_stats.total_records = get_index_stats.spatial_nodes
    /\ get_index_stats.spatial_nodes = get_index_stats.temporal_entries
    /\ ret.op = "get_index_stats" =>
          /\ ret.val.total_records = ret.val.spatial_nodes
          /\ ret.val.spatial_nodes = ret.val.temporal_entries
          /\ ret.val.total_records = size

\* get_index_stats on an engine where two records share their coordinates and
\* two share their timestamp.
C9_Witness ==
    /\ ret.op = "get_index_stats"
    /\ ret.val.total_records = 3
    /\ \E a, b \in Stored : a.id # b.id /\ a.lat = b.lat /\ a.lon = b.lon
    /\ \E a, b \in Stored : a.id # b.id /\ a.t = b.t

\* C10: the bounding box of every Spatial Tree node contains the node's own
\* coordinates and those of every node of its subtree.
C10_BoundsCoverage ==
    \A i \in DOMAIN TreeNodes :
        LET n   == spatial_index_.nodes[TreeNodes[i]]
            sub == SubtreeNodes(spatial_index_.nodes, TreeNodes[i])
        IN  \A j \in DOMAIN sub :
                LET m == spatial_index_.nodes[sub[j]]
                IN  /\ n.min_lat <= m.point[1] /\ m.point[1] <= n.max_lat
                    /\ n.min_lon <= m.point[2] /\ m.point[2] <= n.max_lon

\* The root has a grandchild, and its box reaches beyond its own point in
\* latitude and in longitude.
C10_Witness ==
    /\ spatial_index_.root_ # NULL
    /\ LET root == spatial_index_.nodes[spatial_index_.root_]
       IN  /\ \E c \in DOMAIN spatial_index_.nodes :
                 /\ c \in { root.left, root.right }
                 /\ spatial_index_.nodes[c].left # NULL \/ spatial_index_.nodes[c].right # NULL
           /\ root.max_lat > root.point[1]
           /\ root.min_lon < root.point[2]

-----------------------------------------------------------------------------
(* I4: the envelope is tight *)

\* The timestamps of the records inserted since construction or the last
\* clear.
IssuedTimes == { issued[i][2][3] : i \in DOMAIN issued }

\* C11: once a record was inserted since construction or the last clear,
\* min_time is the least and max_time the greatest timestamp inserted since
\* then by insert or bulk_insert, and every stored record has its timestamp
\* between the two.
C11_EnvelopeTight ==
    issued # <<>> =>
        /\ temporal_index_.min_time_ \in IssuedTimes
        /\ temporal_index_.max_time_ \in IssuedTimes
        /\ \A t \in IssuedTimes :
               temporal_index_.min_time_ <= t /\ t <= temporal_index_.max_time_
        /\ \A r \in Stored :
               temporal_index_.min_time_ <= r.t /\ r.t <= temporal_index_.max_time_
        /\ get_index_stats.min_time = temporal_index_.min_time_
        /\ get_index_stats.max_time = temporal_index_.max_time_

\* A bulk_insert after an insert left three records whose timestamps come
\* in the order 2, 1, 2, and the envelope is [1, 2].
C11_Witness ==
    /\ ret.op = "bulk_insert"
    /\ Len(issued) = 3
    /\ issued[1][2][3] = 2 /\ issued[2][2][3] = 1 /\ issued[3][2][3] = 2
    /\ temporal_index_.min_time_ = 1
    /\ temporal_index_.max_time_ = 2

-----------------------------------------------------------------------------
(* P7: clear *)

\* What a freshly constructed engine shows: no record, an empty tree, an
\* empty temporal index, the envelope at its sentinels, is_built false and 1
\* as the next identifier.
Fresh ==
    /\ size = 0
    /\ record_store_.records_ = <<>>
    /\ record_store_.id_to_index_ = <<>>
    /\ record_store_.next_id_ = 1
    /\ spatial_index_.root_ = NULL
    /\ spatial_index_.size_ = 0
    /\ temporal_index_.time_index_ = <<>>
    /\ temporal_index_.min_time_ = DBL_MAX
    /\ temporal_index_.max_time_ = DBL_LOWEST
    /\ build_completed_ = FALSE
    /\ get_index_stats = [total_records |-> 0, spatial_nodes |-> 0, temporal_entries |-> 0,
                          min_time |-> DBL_MAX, max_time |-> DBL_LOWEST, is_built |-> FALSE]
    /\ \A id \in Ids : get_record(id) = <<>>

\* A second clear changes nothing of the engine.
ClearIsFixed ==
    /\ RecordStore_clear(record_store_) = record_store_
    /\ SpatialIndex_clear(spatial_index_) = spatial_index_
    /\ TemporalIndex_clear(temporal_index_) = temporal_index_

\* C12: from any reachable state clear leaves the engine as a freshly
\* constructed one (no record, empty tree and temporal index, envelope at the
\* sentinels, is_built false), the insert that follows returns identifier 1,
\* and a second clear gives the state of the first.
C12_ClearFresh ==
    [][ /\ (ret'.op = "clear" => Fresh' /\ ClearIsFixed')
        /\ (ret.op = "clear" /\ ret'.op = "insert" => ret'.val = 1)
        /\ (ret.op = "clear" /\ ret'.op = "bulk_insert" =>
               ret'.val = [i \in 1..Len(ret'.args) |-> i]) ]_vars

\* The engine as a clear left it: fresh, and whatever is inserted next gets
\* identifier 1.
C12_Witness ==
    /\ ret.op = "clear"
    /\ Fresh
    /\ \A in \in MixedInputs : insert_one(Engine, in[1], in[2], in[3]).ids = << 1 >>

-----------------------------------------------------------------------------
(* The sentinels of the envelope on an engine without records *)

\* The queries that test the envelope before anything else.
EnvelopeQueries ==
    { "query_radius_time", "query_box_time", "query_knn_time",
      "query_radius_time_instrumented", "range_query" }

\* The identifiers the last query returned.
RetIds ==
    IF ret.op = "query_radius_time_instrumented" THEN ret.val.ids
    ELSE IF ret.op = "range_query" THEN ret.val.results
    ELSE ret.val

\* C13: on an engine that holds no record the envelope test
\* (t_end < min_time or t_start > max_time) rejects every range, the range
\* from the lowest to the largest double included, so each *_time query and
\* the range query of the temporal index return the empty sequence by the
\* early rejection, without a call of the spatial index or a walk of the map.
C13_EmptyRejectsAll ==
    size = 0 /\ ret.op \in EnvelopeQueries =>
        /\ envelope_rejects(RetRange[1], RetRange[2])
        /\ RetIds = <<>>
        /\ spatial_calls = <<>>
        /\ ret.op = "range_query" => ret.val.returned /\ ret.val.rejected

-----------------------------------------------------------------------------
(* The instrumented radius query *)

\* C14: query_radius_time_instrumented returns the identifiers of
\* query_radius_time on the same arguments, in the same order, and the
\* instrumented radius query of the spatial index returns the sequence of the
\* plain one: counting does not change what is explored or returned.
C14_InstrumentedSame ==
    /\ ret.op = "query_radius_time_instrumented" =>
           ret.val.ids = query_radius_time(ret.args[1], ret.args[2], ret.args[3],
                                           ret.args[4], ret.args[5]).val
    /\ ret.op = "query_radius_time" =>
           \A stats \in PriorStats :
               ret.val = query_radius_time_instrumented(ret.args[1], ret.args[2], ret.args[3],
                                                        ret.args[4], ret.args[5], stats).val
    /\ \A c \in InstrumentedCenters, r \in InstrumentedRadii :
           radius_query_instrumented(spatial_index_, c[1], c[2], r).results
               = radius_query(spatial_index_, c[1], c[2], r)

\* An instrumented query that pruned a subtree, dropped a record by its
\* time and returned an identifier.
C14_Witness ==
    /\ ret.op = "query_radius_time_instrumented"
    /\ Len(ret.val.ids) >= 1
    /\ ret.val.stats.spatial_distance_prunes > 0
    /\ ret.val.stats.records_filtered_by_time > 0


\* The statistics of the last instrumented query.
RetStats == ret.val.stats

\* C18: an instrumented query that the envelope does not reject reports the
\* four spatial counters of the instrumented radius query of the spatial
\* index on its arguments (no bounding-box prune, two distance checks per
\* visited node, no more visited nodes than stored records), as many passed
\* plus filtered records as the radius query returned, and a result count
\* that is the count of passed records and the length of the result;
\* nothing of the caller's earlier counters is left.
C18_StatsAccount ==
    ret.op = "query_radius_time_instrumented"
        /\ ~(ret.args[5] < temporal_index_.min_time_ \/ ret.args[4] > temporal_index_.max_time_) =>
        LET spatial == radius_query_instrumented(spatial_index_, ret.args[1], ret.args[2],
                                                 ret.args[3])
        IN  /\ RetStats.spatial_nodes_visited = spatial.stats.nodes_visited
            /\ RetStats.spatial_distance_checks = spatial.stats.distance_checks
            /\ RetStats.spatial_bbox_prunes = spatial.stats.bbox_prunes
            /\ RetStats.spatial_distance_prunes = spatial.stats.distance_prunes
            /\ RetStats.spatial_bbox_prunes = 0
            /\ RetStats.spatial_distance_checks = 2 * RetStats.spatial_nodes_visited
            /\ RetStats.spatial_nodes_visited <= size
            /\ RetStats.records_passed_time_filter + RetStats.records_filtered_by_time
                   = Len(query_radius(ret.args[1], ret.args[2], ret.args[3]))
            /\ RetStats.result_count = RetStats.records_passed_time_filter
            /\ RetStats.result_count = Len(ret.val.ids)

\* An instrumented query on a stats object that held the counters of an
\* earlier call (two results, two passed): it visited two nodes or more,
\* passed one record and filtered one or more.
C18_Witness ==
    /\ ret.op = "query_radius_time_instrumented"
    /\ ret.args[6] # QueryStats_reset
    /\ RetStats.spatial_nodes_visited >= 2
    /\ RetStats.records_passed_time_filter = 1
    /\ RetStats.records_filtered_by_time >= 1
    /\ RetStats.result_count = 1

-----------------------------------------------------------------------------
(* I3: the split ordering of the Spatial Tree *)

\* The coordinate of node m on the split axis of node n.
OnAxisOf(n, m) == spatial_index_.nodes[m].point[spatial_index_.nodes[n].axis + 1]

\* The nodes below the left and below the right child of node n.
LeftOf(n) == Range(SubtreeNodes(spatial_index_.nodes, spatial_index_.nodes[n].left))

RightOf(n) == Range(SubtreeNodes(spatial_index_.nodes, spatial_index_.nodes[n].right))

\* C15: for every node n of the Spatial Tree with split axis a and split
\* value v = n.point[a], every node of the left subtree of n has point[a] < v
\* and every node of the right subtree has point[a] >= v; a point whose
\* coordinate equals v stands in the right subtree.
C15_SplitOrdering ==
    \A n \in Range(TreeNodes) :
        /\ \A m \in LeftOf(n) : OnAxisOf(n, m) < OnAxisOf(n, n)
        /\ \A m \in RightOf(n) : OnAxisOf(n, m) >= OnAxisOf(n, n)
        /\ \A m \in Range(TreeNodes) \ {n} :
               m \in LeftOf(n) \cup RightOf(n) /\ OnAxisOf(n, m) = OnAxisOf(n, n)
                   => m \in RightOf(n)

\* A tree of three nodes on two levels below the root, where the root has a
\* node with its own latitude on the right and the node at depth 1 has a
\* node of smaller longitude on its left.
C15_Witness ==
    /\ spatial_index_.size_ = 3
    /\ \E n, m, l \in Range(TreeNodes) :
          /\ n = spatial_index_.root_
          /\ spatial_index_.nodes[n].right = m
          /\ OnAxisOf(n, m) = OnAxisOf(n, n)
          /\ spatial_index_.nodes[m].axis = 1
          /\ spatial_index_.nodes[m].left = l
          /\ OnAxisOf(m, l) < OnAxisOf(m, m)

-----------------------------------------------------------------------------
(* The range query of the Temporal Index *)

\* The identifiers inserted since the last clear with a timestamp in [a, b].
IssuedIn(a, b) == { issued[i][1] : i \in { j \in DOMAIN issued : a <= issued[j][2][3]
                                                                /\ issued[j][2][3] <= b } }

\* The timestamp an identifier was inserted with.
IssuedTime(id) == (CHOOSE x \in Range(issued) : x[1] = id)[2][3]

\* C16: for t_start <= t_end the range query returns exactly the identifiers
\* of the entries with t_start <= t <= t_end, both ends included, each once,
\* by non-decreasing timestamp, entries of equal timestamp all among them;
\* the quick rejection drops no entry of the range.
C16_RangeExact ==
    ret.op = "range_query" /\ ret.args[1] <= ret.args[2] =>
        /\ ret.val.returned
        /\ Range(ret.val.results) = IssuedIn(ret.args[1], ret.args[2])
        /\ Len(ret.val.results) = Cardinality(IssuedIn(ret.args[1], ret.args[2]))
        /\ \A i, j \in DOMAIN ret.val.results :
               i < j => IssuedTime(ret.val.results[i]) <= IssuedTime(ret.val.results[j])
        /\ ret.val.rejected => IssuedIn(ret.args[1], ret.args[2]) = {}

\* A range [2, 3] on the entries with timestamps 3, 2, 2 in the order of
\* insertion: the two entries of timestamp 2 come first, in their order of
\* insertion, then the entry of timestamp 3.
C16_Witness ==
    /\ ret.op = "range_query"
    /\ ret.args = <<2, 3>>
    /\ Len(issued) = 3
    /\ issued[1][2][3] = 3 /\ issued[2][2][3] = 2 /\ issued[3][2][3] = 2
    /\ ret.val.results = <<2, 3, 1>>


\* C20: for a reversed range, t_start > t_end, bounds inside the envelope
\* with stored timestamps between them included, the range query returns,
\* and returns the empty sequence: the walk from lower_bound(t_start) meets
\* upper_bound(t_end) without passing the end of the map.
C20_ReversedRangeEmpty ==
    ret.op = "range_query" /\ ret.args[1] > ret.args[2] =>
        /\ ret.val.returned
        /\ ret.val.results = <<>>

-----------------------------------------------------------------------------
(* The is_built flag *)

\* The operations that set the flag.
FlagOps == { "build", "insert", "bulk_insert", "clear" }

\* C19: is_built as get_index_stats reports it is true exactly when build
\* was the last of build, insert, bulk_insert and clear (false on a new
\* engine): build sets it and changes nothing else of the engine, so every
\* query answers as before; insert, bulk_insert (of the empty sequence too)
\* and clear set it back to false; the queries leave it as it is.
C19_BuiltFlag ==
    [][ /\ ret.op = "new" => ~build_completed_
        /\ get_index_stats'.is_built = build_completed_'
        /\ ret'.op = "get_index_stats" => ret'.val.is_built = build_completed_
        /\ ret'.op = "build" =>
               /\ build_completed_'
               /\ UNCHANGED <<record_store_, spatial_index_, temporal_index_>>
               /\ \A id \in Ids : get_record(id)' = get_record(id)
               /\ [get_index_stats' EXCEPT !.is_built = FALSE]
                      = [get_index_stats EXCEPT !.is_built = FALSE]
        /\ ret'.op \in FlagOps \ { "build" } => ~build_completed_'
        /\ ret'.op \notin FlagOps => build_completed_' = build_completed_ ]_vars

\* get_index_stats reports is_built on an engine of two records: build came
\* after the last insert.
C19_Witness ==
    /\ ret.op = "get_index_stats"
    /\ ret.val.is_built
    /\ ret.val.total_records = 2

-----------------------------------------------------------------------------
(* insert against a reader: the order of the three components *)

\* The record in flight: obtained from the Record Table by the call in
\* progress and not yet in all three components.
InFlightIds ==
    IF inflight # <<>> /\ inflight.at \in { "spatial_insert", "temporal_insert" }
    THEN { inflight_id }
    ELSE {}

\* C17: with insert and the body of the loop of bulk_insert run statement by
\* statement and a reader between the statements, a record enters the Record
\* Table first, the Spatial Tree second and the Temporal Index last: at every
\* moment ids(Temporal Index) is a subset of ids(Spatial Tree), which is a
\* subset of ids(Record Table), each differing from the next by at most the
\* record in flight; the time filter finds in the Record Table every
\* identifier the Spatial Tree gives it; and the three hold the same
\* identifiers again when the insert, or an element of bulk_insert, is done.
C17_InsertOrder ==
    LET table    == Range(TableIds)
        tree     == Range(TreeIds)
        temporal == Range(TemporalIds)
    IN  /\ temporal \subseteq tree
        /\ tree \subseteq table
        /\ (table \ tree) \subseteq InFlightIds
        /\ (tree \ temporal) \subseteq InFlightIds
        /\ Cardinality(InFlightIds) <= 1
        /\ \A id \in tree : get_record_ptr(id) # <<>>
        /\ ret.op = "query_radius_time" =>
               \A id \in Range(ret.val) : get_record_ptr(id) # <<>>
        /\ InFlightIds = {} =>
               /\ table = tree /\ tree = temporal
               /\ Len(TableIds) = Len(TreeIds) /\ Len(TreeIds) = Len(TemporalIds)

\* A reader between the spatial and the temporal insert of the second
\* element of a bulk_insert: its query returned the record in flight, which
\* the Record Table and the Spatial Tree hold and the Temporal Index does not.
C17_Witness ==
    /\ inflight # <<>>
    /\ inflight.op = "bulk_insert"
    /\ inflight.at = "temporal_insert"
    /\ Len(inflight.ids) = 2
    /\ ret.op = "query_radius_time"
    /\ inflight_id \in Range(ret.val)
    /\ inflight_id \in Range(TreeIds)
    /\ inflight_id \notin Range(TemporalIds)

-----------------------------------------------------------------------------
(* The number of neighbours query_knn_time asks of the spatial index *)

\* C21: for every 64-bit k and every record count N, query_knn_time asks the
\* spatial index for min(3k, N) neighbours, the minimum taken over the
\* integers: k * 3 does not wrap modulo 2^64, so for k > 0 and N > 0 the
\* request is not 0 and not smaller than min(k, N).
C21_FetchNoWrap ==
    ret.op = "query_knn_time" /\ ~envelope_rejects(ret.args[4], ret.args[5]) =>
        LET k       == ret.args[3]
            fetch_k == fetch_k_of(k)
        IN  /\ fetch_k = U64(MinTripleWithSize(k, size))
            /\ k # U64(0) /\ size > 0 =>
                   /\ fetch_k # U64(0)
                   /\ ~U64Less(fetch_k, U64(MinWithSize(k, size)))

=============================================================================
